---- MODULE Spec2Model ----
(***************************************************************************)
(* XrdCl::ParallelOperation (src/src/XrdCl/XrdClParallelOperation.hh).     *)
(*                                                                         *)
(* One ParallelOperation over `pipelines` pipelines: the policy-selection  *)
(* calls, RunImpl with its launch loop, the continuation of every started  *)
(* pipeline (Ctx::Examine: the policy's atomic counter steps, then the     *)
(* exchange on the handler slot), and the release of the shared Ctx, whose *)
(* destructor runs with the last release.  Every atomic read-modify-write  *)
(* of the code is one step of the model; threads interleave between them.  *)
(***************************************************************************)
EXTENDS Integers, FiniteSets

\* Largest number of pipelines handed to the constructor.
MaxN == 3

\* uint16_t: the largest value of a timeout.
UInt16Max == 65535

\* The timeouts tried lie within MaxTimeout of either end of the uint16_t range.
MaxTimeout == 1

VARIABLES
    pipelines,   \* pipelines.size()
    policy,      \* ParallelOperation::policy (kind "null": the empty unique_ptr)
    lastCall,    \* the last policy-selection call made (op "none": no call yet)
    ctxPolicy,   \* Ctx::policy, with the policy object's atomic counters
    handler,     \* Ctx::handler, the atomic slot: "hdlr" or "nullptr"
    refs,        \* use count of the shared_ptr<Ctx>
    runPc,       \* position of RunImpl: "build", "loop", "done"
    i,           \* loop variable of RunImpl
    result,      \* status returned by RunImpl: "none", "OK", "error"
    pc,          \* per pipeline: position of its continuation
    st,          \* per pipeline: the status its continuation was called with
    nb,          \* per pipeline: local nb of the policy's Examine (0 outside it)
    s,           \* per pipeline: local s of SomePolicy::Examine (0 outside it)
    ret,         \* per pipeline: value returned by policy->Examine
    calls,       \* number of hdlr->HandleResponse calls
    delivered,   \* the status passed to hdlr->HandleResponse
    invoker,     \* which Handle call reached the handler: "Examine" or "~Ctx"
    thisTimeout,     \* this->timeout, the operation's own timeout
    pipelineTimeout, \* the argument pipelineTimeout of RunImpl
    timeout,         \* local timeout of RunImpl
    runTimeout       \* per pipeline: the timeout its Run was called with (-1: not called)

vars == <<pipelines, policy, lastCall, ctxPolicy, handler, refs, runPc, i,
          result, pc, st, nb, s, ret, calls, delivered, invoker,
          thisTimeout, pipelineTimeout, timeout, runTimeout>>

timeoutVars == <<thisTimeout, pipelineTimeout, timeout, runTimeout>>
opVars   == <<pipelines, policy, lastCall, runPc, i, result, timeoutVars>>
taskVars == <<pc, st, nb, s, ret>>
hdlrVars == <<handler, calls, delivered, invoker>>

Tasks == 1..pipelines

\* XRootDStatus: the success tag and, as the error detail, the pipeline the
\* status comes from (0: a default-constructed status).
XRootDStatus == [ok |-> TRUE, src |-> 0]
TaskStatus(t, ok) == [ok |-> ok, src |-> t]
NoStatus == [ok |-> FALSE, src |-> -1]

NullPolicy == [kind |-> "null", cnt |-> 0, succeeded |-> 0, threshold |-> 0]

\* new AllPolicy()
AllPolicy == [kind |-> "All", cnt |-> 0, succeeded |-> 0, threshold |-> 0]
\* new AnyPolicy( size )
AnyPolicy(size) == [kind |-> "Any", cnt |-> size, succeeded |-> 0, threshold |-> 0]
\* new SomePolicy( size, threshold )
SomePolicy(size, threshold) ==
    [kind |-> "Some", cnt |-> size, succeeded |-> 0, threshold |-> threshold]
\* new AtLeastPolicy( size, threshold )
AtLeastPolicy(size, threshold) ==
    [kind |-> "AtLeast", cnt |-> size, succeeded |-> 0, threshold |-> threshold]

\* A policy-selection call: the method and its argument (0 where it has none).
Call(op, threshold) == [op |-> op, threshold |-> threshold]

\* The thresholds a caller passes (size_t): every value up to one past the
\* number of pipelines.
Thresholds == 0..(pipelines + 1)

\* The timeouts of the two ends of the uint16_t range.
Timeouts == (0..MaxTimeout) \cup ((UInt16Max - MaxTimeout)..UInt16Max)

\* The state after construction, with the operation's timeout and the timeout
\* the caller is going to pass to RunImpl taken from T.
Constructed(T) ==
    /\ pipelines \in 1..MaxN
    /\ policy = NullPolicy
    /\ lastCall = Call("none", 0)
    /\ ctxPolicy = NullPolicy
    /\ handler = "nullptr"
    /\ refs = 0
    /\ runPc = "build"
    /\ i = 0
    /\ result = "none"
    /\ pc = [t \in Tasks |-> "idle"]
    /\ st = [t \in Tasks |-> NoStatus]
    /\ nb = [t \in Tasks |-> 0]
    /\ s = [t \in Tasks |-> 0]
    /\ ret = [t \in Tasks |-> FALSE]
    /\ calls = 0
    /\ delivered = NoStatus
    /\ invoker = "none"
    /\ thisTimeout \in T
    /\ pipelineTimeout \in T
    /\ timeout = 0
    /\ runTimeout = [t \in Tasks |-> -1]

\* No guard and no assignment to another variable reads a timeout: the
\* operation is followed with both timeouts 0.
Init == Constructed({0})

\* The operation with every pair of timeouts.
TimeoutInit == Constructed(Timeouts)

----------------------------------------------------------------------------
\* Policy selection (before RunImpl).

SetPolicy(p, call) ==
    /\ runPc = "build"
    /\ policy' = p
    /\ lastCall' = call
    /\ UNCHANGED <<pipelines, ctxPolicy, handler, refs, runPc, i, result,
                   pc, st, nb, s, ret, calls, delivered, invoker>>
    /\ UNCHANGED timeoutVars

All == SetPolicy(AllPolicy, Call("All", 0))

Any == SetPolicy(AnyPolicy(pipelines), Call("Any", 0))

Some(threshold) ==
    SetPolicy(SomePolicy(pipelines, threshold), Call("Some", threshold))

AtLeast(threshold) ==
    SetPolicy(AtLeastPolicy(pipelines, threshold), Call("AtLeast", threshold))

----------------------------------------------------------------------------
\* The policies' decisions, from the values their atomic steps returned.

\* AllPolicy::Examine that lets a failure pass.
AllPolicyExamineLenient(status) == FALSE

AllPolicyExamine(status) == ~status.ok

\* AnyPolicy::Examine testing the value after the decrement.
AnyPolicyExaminePost(status, n) == status.ok \/ n - 1 = 1

AnyPolicyExamine(status, n) == status.ok \/ n = 1

\* SomePolicy::Examine testing the count left after the decrement.
SomePolicyFailedPost(n, threshold) == n - 1 = threshold

\* SomePolicy::Examine on a failure (nb: the value cnt.fetch_sub returned).
SomePolicyFailed(n, threshold) == n = threshold

\* SomePolicy::Examine comparing the value before the increment.
SomePolicySucceededPre(sc, threshold) == sc = threshold

\* SomePolicy::Examine on a success (sc: the value succeeded.fetch_add returned).
SomePolicySucceeded(sc, threshold) == sc + 1 = threshold

AtLeastPolicyExamine(status, n, threshold) == ~status.ok /\ n = threshold

----------------------------------------------------------------------------
\* Ctx

\* Ctx::Handle reading the slot without emptying it.
HandleLoad(status, who) ==
    /\ handler' = handler
    /\ IF handler # "nullptr"
       THEN /\ calls' = calls + 1
            /\ delivered' = status
            /\ invoker' = who
       ELSE UNCHANGED <<calls, delivered, invoker>>

\* Ctx::Handle: the exchange on the slot and, for the caller that took the
\* handler, the call of HandleResponse.
Handle(status, who) ==
    /\ handler' = "nullptr"
    /\ IF handler # "nullptr"
       THEN /\ calls' = calls + 1
            /\ delivered' = status
            /\ invoker' = who
       ELSE UNCHANGED <<calls, delivered, invoker>>

\* A destructor that does not finalize.
CtxDtorEmpty == UNCHANGED hdlrVars

\* Ctx::~Ctx
CtxDtor == Handle(XRootDStatus, "~Ctx")

\* A release that finalizes whether or not other holders are left.
ReleaseCtxEager ==
    /\ refs' = refs - 1
    /\ CtxDtor

\* One holder of the shared_ptr<Ctx> lets go; the last one destroys the Ctx.
ReleaseCtx ==
    /\ refs' = refs - 1
    /\ IF refs = 1 THEN CtxDtor ELSE UNCHANGED hdlrVars

----------------------------------------------------------------------------
\* RunImpl

\* A RunImpl whose fallback policy is Any.
ValidPolicyAny(p) == IF p.kind = "null" THEN AnyPolicy(pipelines) ELSE p

\* Line 358: make sure we have a valid policy for the parallel operation.
ValidPolicy(p) == IF p.kind = "null" THEN AllPolicy ELSE p

\* A RunImpl that passes the caller's timeout on.
EffectiveTimeoutHint(pTimeout, opTimeout) == pTimeout

\* Lines 363-364: pipelineTimeout < this->timeout ? pipelineTimeout :
\* this->timeout, converted to uint16_t.
EffectiveTimeout(pTimeout, opTimeout) ==
    (IF pTimeout < opTimeout THEN pTimeout ELSE opTimeout) % (UInt16Max + 1)

\* Lines 358-364: the default policy, the shared Ctx and the timeout.
RunImplBegin ==
    /\ runPc = "build"
    /\ ctxPolicy' = ValidPolicy(policy)
    /\ policy' = NullPolicy
    /\ handler' = "hdlr"
    /\ refs' = 1
    /\ runPc' = "loop"
    /\ i' = 1
    /\ timeout' = EffectiveTimeout(pipelineTimeout, thisTimeout)
    /\ UNCHANGED <<pipelines, lastCall, result, calls, delivered, invoker,
                   thisTimeout, pipelineTimeout, runTimeout>>
    /\ UNCHANGED taskVars

\* A launch loop that starts a pipeline only while the handler is still there.
RunPipelineCancel ==
    /\ runPc = "loop"
    /\ i <= pipelines
    /\ handler = "hdlr"
    /\ pc' = [pc EXCEPT ![i] = "running"]
    /\ refs' = refs + 1
    /\ i' = i + 1
    /\ runTimeout' = [runTimeout EXCEPT ![i] = timeout]
    /\ UNCHANGED <<pipelines, policy, lastCall, ctxPolicy, runPc, result,
                   st, nb, s, ret, thisTimeout, pipelineTimeout, timeout>>
    /\ UNCHANGED hdlrVars

\* pipelines[i].Run( timeout, [ctx]... ) returns: the pipeline is running and
\* its continuation holds a copy of ctx.
RunPipeline ==
    /\ runPc = "loop"
    /\ i <= pipelines
    /\ pc' = [pc EXCEPT ![i] = "running"]
    /\ refs' = refs + 1
    /\ i' = i + 1
    /\ runTimeout' = [runTimeout EXCEPT ![i] = timeout]
    /\ UNCHANGED <<pipelines, policy, lastCall, ctxPolicy, runPc, result,
                   st, nb, s, ret, thisTimeout, pipelineTimeout, timeout>>
    /\ UNCHANGED hdlrVars

\* pipelines[i].Run throws: the closure is destroyed, the catch clause returns
\* the error and the local ctx goes out of scope.
RunThrows ==
    /\ runPc = "loop"
    /\ i <= pipelines
    /\ result' = "error"
    /\ runPc' = "done"
    /\ ReleaseCtx
    /\ UNCHANGED <<pipelines, policy, lastCall, ctxPolicy, i>>
    /\ UNCHANGED timeoutVars
    /\ UNCHANGED taskVars

\* The loop has ended: return XRootDStatus(), the local ctx goes out of scope.
RunImplReturn ==
    /\ runPc = "loop"
    /\ i > pipelines
    /\ result' = "OK"
    /\ runPc' = "done"
    /\ ReleaseCtx
    /\ UNCHANGED <<pipelines, policy, lastCall, ctxPolicy, i>>
    /\ UNCHANGED timeoutVars
    /\ UNCHANGED taskVars

----------------------------------------------------------------------------
\* The continuation of pipeline t: ctx->Examine( st ).

\* A policy whose Examine decrements cnt only while the handler is there.
PolicyExamineGated(t, ok) ==
    /\ pc[t] = "running"
    /\ LET status == TaskStatus(t, ok)
           k == ctxPolicy.kind
           n == ctxPolicy.cnt
       IN /\ st' = [st EXCEPT ![t] = status]
          /\ IF k = "All"
             THEN /\ ret' = [ret EXCEPT ![t] = AllPolicyExamine(status)]
                  /\ pc' = [pc EXCEPT ![t] = "examined"]
                  /\ UNCHANGED <<ctxPolicy, nb>>
             ELSE /\ ctxPolicy' = [ctxPolicy EXCEPT !.cnt =
                                      IF handler = "hdlr" THEN n - 1 ELSE n]
                  /\ nb' = [nb EXCEPT ![t] = n]
                  /\ IF k = "Some" /\ ok
                     THEN /\ pc' = [pc EXCEPT ![t] = "fetch_add"]
                          /\ UNCHANGED ret
                     ELSE /\ pc' = [pc EXCEPT ![t] = "examined"]
                          /\ ret' = [ret EXCEPT ![t] =
                                 CASE k = "Any" -> AnyPolicyExamine(status, n)
                                   [] k = "Some" ->
                                        SomePolicyFailed(n, ctxPolicy.threshold)
                                   [] OTHER ->
                                        AtLeastPolicyExamine(status, n,
                                                             ctxPolicy.threshold)]
    /\ UNCHANGED <<s, refs>>
    /\ UNCHANGED opVars
    /\ UNCHANGED hdlrVars

\* The continuation is called with a status; policy->Examine runs up to and
\* including its first atomic step (cnt.fetch_sub; AllPolicy has none).
PolicyExamine(t, ok) ==
    /\ pc[t] = "running"
    /\ LET status == TaskStatus(t, ok)
           k == ctxPolicy.kind
           n == ctxPolicy.cnt
       IN /\ st' = [st EXCEPT ![t] = status]
          /\ IF k = "All"
             THEN /\ ret' = [ret EXCEPT ![t] = AllPolicyExamine(status)]
                  /\ pc' = [pc EXCEPT ![t] = "examined"]
                  /\ UNCHANGED <<ctxPolicy, nb>>
             ELSE /\ ctxPolicy' = [ctxPolicy EXCEPT !.cnt = n - 1]
                  /\ nb' = [nb EXCEPT ![t] = n]
                  /\ IF k = "Some" /\ ok
                     THEN /\ pc' = [pc EXCEPT ![t] = "fetch_add"]
                          /\ UNCHANGED ret
                     ELSE /\ pc' = [pc EXCEPT ![t] = "examined"]
                          /\ ret' = [ret EXCEPT ![t] =
                                 CASE k = "Any" -> AnyPolicyExamine(status, n)
                                   [] k = "Some" ->
                                        SomePolicyFailed(n, ctxPolicy.threshold)
                                   [] OTHER ->
                                        AtLeastPolicyExamine(status, n,
                                                             ctxPolicy.threshold)]
    /\ UNCHANGED <<s, refs>>
    /\ UNCHANGED opVars
    /\ UNCHANGED hdlrVars

\* SomePolicy::Examine on a success: succeeded.fetch_add( 1 ) and the test.
SomeFetchAdd(t) ==
    /\ pc[t] = "fetch_add"
    /\ s' = [s EXCEPT ![t] = ctxPolicy.succeeded]
    /\ ctxPolicy' = [ctxPolicy EXCEPT !.succeeded = ctxPolicy.succeeded + 1]
    /\ ret' = [ret EXCEPT ![t] =
                  SomePolicySucceeded(ctxPolicy.succeeded, ctxPolicy.threshold)]
    /\ pc' = [pc EXCEPT ![t] = "examined"]
    /\ UNCHANGED <<st, nb, refs>>
    /\ UNCHANGED opVars
    /\ UNCHANGED hdlrVars

\* A Ctx::Examine that calls Handle whatever the policy returned.
CtxExamineAlways(t) ==
    /\ pc[t] = "examined"
    /\ Handle(st[t], "Examine")
    /\ pc' = [pc EXCEPT ![t] = "returned"]
    /\ nb' = [nb EXCEPT ![t] = 0]
    /\ s' = [s EXCEPT ![t] = 0]
    /\ UNCHANGED <<ctxPolicy, refs, st, ret>>
    /\ UNCHANGED opVars

\* Ctx::Examine after policy->Examine has returned: Handle( st ) if it
\* returned true; then the continuation returns and the locals of the policy
\* call are gone.
CtxExamine(t) ==
    /\ pc[t] = "examined"
    /\ IF ret[t] THEN Handle(st[t], "Examine") ELSE UNCHANGED hdlrVars
    /\ pc' = [pc EXCEPT ![t] = "returned"]
    /\ nb' = [nb EXCEPT ![t] = 0]
    /\ s' = [s EXCEPT ![t] = 0]
    /\ UNCHANGED <<ctxPolicy, refs, st, ret>>
    /\ UNCHANGED opVars

\* The continuation (the closure holding ctx) is destroyed.
ReleaseContinuation(t) ==
    /\ pc[t] = "returned"
    /\ pc' = [pc EXCEPT ![t] = "released"]
    /\ ReleaseCtx
    /\ UNCHANGED <<ctxPolicy, st, nb, s, ret>>
    /\ UNCHANGED opVars

\* Every step of the continuation of pipeline t.
Continuation(t) ==
    \/ \E ok \in BOOLEAN : PolicyExamine(t, ok)
    \/ SomeFetchAdd(t)
    \/ CtxExamine(t)
    \/ ReleaseContinuation(t)

----------------------------------------------------------------------------

Next ==
    \/ All
    \/ Any
    \/ \E threshold \in Thresholds : Some(threshold)
    \/ \E threshold \in Thresholds : AtLeast(threshold)
    \/ RunImplBegin
    \/ RunPipeline
    \/ RunThrows
    \/ RunImplReturn
    \/ \E t \in Tasks : \E ok \in BOOLEAN : PolicyExamine(t, ok)
    \/ \E t \in Tasks : SomeFetchAdd(t)
    \/ \E t \in Tasks : CtxExamine(t)
    \/ \E t \in Tasks : ReleaseContinuation(t)

Spec == Init /\ [][Next]_vars

\* RunImpl without a policy-selection call before it, and the continuations
\* of the pipelines it started.
TimeoutNext ==
    \/ RunImplBegin
    \/ RunPipeline
    \/ RunThrows
    \/ RunImplReturn
    \/ \E t \in Tasks : \E ok \in BOOLEAN : PolicyExamine(t, ok)
    \/ \E t \in Tasks : CtxExamine(t)
    \/ \E t \in Tasks : ReleaseContinuation(t)

\* The activation of the operation for every pair of timeouts.
TimeoutSpec == TimeoutInit /\ [][TimeoutNext]_vars

\* A started pipeline calls its continuation, the continuation runs to its end
\* and is then destroyed (the contract of Pipeline::Run): while some
\* continuation has a step to take, one of them takes a step.
FairSpec ==
    /\ Spec
    /\ WF_vars(\E t \in Tasks : Continuation(t))

----------------------------------------------------------------------------
\* Vocabulary of the properties.

\* policy->Examine has returned in the continuation of pipeline t.
Examined(t) == pc[t] \in {"examined", "returned", "released"}

\* The continuation of pipeline t has returned from ctx->Examine.
Returned(t) == pc[t] \in {"returned", "released"}

\* RunImpl started every pipeline and returned, and every holder of the Ctx
\* (RunImpl and each continuation) has released it.
AllResolved == result = "OK" /\ refs = 0

\* The pipelines whose continuation was called with a success.
Successes == {t \in Tasks : st[t].ok}

\* The threshold of the policy in force satisfies 0 < k <= n.
ThresholdInRange == ctxPolicy.threshold \in 1..pipelines

----------------------------------------------------------------------------
\* C1: the handler is never invoked more than once; once the handler slot of
\* the Ctx has been emptied it stays empty, and a Handle call that finds it
\* empty (from a continuation or from the destructor) invokes nothing.
C1_AtMostOnce ==
    [][ /\ calls' <= 1
        /\ (runPc # "build" /\ handler = "nullptr") =>
               (handler' = "nullptr" /\ calls' = calls /\ delivered' = delivered)
      ]_vars

\* C1 witness: every holder has released the Ctx, the handler was invoked
\* once, and two Handle calls found the slot empty: the one of a continuation
\* whose policy call returned true, and the destructor's.
C1_Witness ==
    /\ runPc = "done" /\ refs = 0 /\ calls = 1 /\ invoker = "Examine"
    /\ \E t \in Tasks : pc[t] = "released" /\ ret[t] /\ delivered # st[t]

\* C2: when RunImpl has started every pipeline and returned OK, and every
\* continuation runs and is released, the handler is eventually invoked, and
\* at the latest by the last release of the Ctx: once nobody holds the Ctx the
\* handler has been invoked exactly once.
C2_EventualDelivery ==
    /\ [](AllResolved => calls = 1)
    /\ (result = "OK") ~> (calls = 1)

\* C2 witness: a run without launch fault in which no Handle call came from a
\* policy decision and the last release delivered the outcome.
C2_Witness == AllResolved /\ calls = 1 /\ invoker = "~Ctx"

\* C3: under All (selected or by default): a success reaches the handler only
\* from the last release, after every started pipeline succeeded and was
\* released; a failure reaching the handler is the status of a pipeline that
\* failed, passed by its own continuation; and when all n pipelines are
\* resolved the handler has been invoked once, with a success if and only if
\* all n succeeded.
C3_AllPolicy ==
    ctxPolicy.kind = "All" =>
        /\ (calls >= 1 /\ delivered.ok) =>
               /\ invoker = "~Ctx" /\ refs = 0
               /\ \A t \in Tasks : pc[t] = "released" => st[t].ok
        /\ (calls >= 1 /\ ~delivered.ok) =>
               /\ invoker = "Examine"
               /\ delivered.src \in Tasks
               /\ delivered = st[delivered.src]
        /\ AllResolved =>
               /\ calls = 1
               /\ delivered.ok <=> (Successes = Tasks)

\* C3 witness: All, all resolved, one pipeline failed and another succeeded,
\* and the failure was delivered.
C3_Witness ==
    /\ ctxPolicy.kind = "All" /\ AllResolved /\ calls = 1
    /\ ~delivered.ok
    /\ \E t, u \in Tasks : st[t].ok /\ ~st[u].ok /\ delivered = st[u]

\* C4 (as claimed): under Any, once the handler has been invoked in a run
\* without launch fault in which a pipeline completed with success, the
\* delivered outcome is a success.
C4_AnySuccessDelivered ==
    (ctxPolicy.kind = "Any" /\ result # "error" /\ calls >= 1
                            /\ Successes # {}) => delivered.ok

\* C5: under Any, while every completion so far is a failure: a failing
\* Examine returns true exactly when its decrement observed 1, at most one
\* does, every other pipeline has then already decremented the counter, a
\* continuation that invokes the handler is that one and passes its own
\* status, and when all n pipelines are resolved the handler has been invoked
\* once, by that continuation.
C5_AnyAllFail ==
    (ctxPolicy.kind = "Any" /\ Successes = {}) =>
        /\ \A t \in Tasks : pc[t] = "examined" => (ret[t] <=> nb[t] = 1)
        /\ \A t \in Tasks : (Examined(t) /\ ret[t]) =>
               \A u \in Tasks : Examined(u)
        /\ Cardinality({t \in Tasks : Examined(t) /\ ret[t]}) <= 1
        /\ (calls >= 1 /\ invoker = "Examine") =>
               /\ delivered.src \in Tasks
               /\ delivered = st[delivered.src]
               /\ ret[delivered.src]
        /\ AllResolved =>
               /\ calls = 1 /\ invoker = "Examine"
               /\ Cardinality({t \in Tasks : ret[t]}) = 1

\* C5 witness: Any over at least two pipelines, all failed and resolved, the
\* handler invoked by a continuation.
C5_Witness ==
    /\ ctxPolicy.kind = "Any" /\ AllResolved /\ pipelines >= 2
    /\ Successes = {} /\ calls = 1 /\ invoker = "Examine"

\* C6: under Some(k) with 0 < k <= n, the policy call of a success returns
\* true exactly when it raised the success counter from k-1 to k, and when
\* that call's Handle step finds the handler not yet invoked it invokes the
\* handler with that success.
C6_SomeThreshold ==
    [][ (ctxPolicy.kind = "Some" /\ ThresholdInRange) =>
          \A t \in Tasks :
            /\ (pc'[t] = "examined" /\ st'[t].ok) =>
                   (ret'[t] <=> s'[t] + 1 = ctxPolicy.threshold)
            /\ (/\ pc[t] = "examined" /\ pc'[t] = "returned"
                /\ st[t].ok /\ s[t] + 1 = ctxPolicy.threshold
                /\ handler = "hdlr") =>
                   (calls' = 1 /\ delivered' = st[t] /\ invoker' = "Examine")
      ]_vars

\* C6 witness: Some(k) with 2 <= k <= n, the k-th success delivered by its own
\* continuation, another success having returned without a decision.
C6_Witness ==
    /\ ctxPolicy.kind = "Some" /\ ThresholdInRange /\ ctxPolicy.threshold >= 2
    /\ \E t, u \in Tasks :
         /\ st[t].ok /\ Returned(t) /\ ret[t]
         /\ delivered = st[t] /\ calls = 1
         /\ st[u].ok /\ Returned(u) /\ ~ret[u]

\* C7 (as claimed): under Some(k) with 0 < k <= n, in a run without launch
\* fault, a success reaches the handler only if at least k pipelines
\* completed with success.
C7_SomeSuccessNeedsK ==
    (/\ ctxPolicy.kind = "Some" /\ ThresholdInRange
     /\ result # "error" /\ calls >= 1 /\ delivered.ok) =>
        Cardinality(Successes) >= ctxPolicy.threshold

\* C8 (as claimed): under AtLeast(k) with 0 < k <= n, when all pipelines are
\* resolved the handler has received a success if and only if at least k
\* pipelines completed with success.
C8_AtLeastIff ==
    (ctxPolicy.kind = "AtLeast" /\ ThresholdInRange /\ AllResolved) =>
        (delivered.ok <=> Cardinality(Successes) >= ctxPolicy.threshold)

\* C9 (as claimed): under AtLeast(k), in a run without launch fault, the
\* handler is not invoked before the policy has examined the completion of
\* every pipeline.
C9_AtLeastWaitsForAll ==
    (ctxPolicy.kind = "AtLeast" /\ result # "error" /\ calls >= 1) =>
        \A t \in Tasks : Examined(t)

\* C10 (as claimed): when starting pipeline i throws, the pipelines from i on
\* are not started, RunImpl returns the error, and the handler is never
\* invoked through the Ctx.
C10_LaunchFault ==
    result = "error" =>
        /\ runPc = "done"
        /\ \A t \in Tasks : t >= i => pc[t] = "idle"
        /\ calls = 0

\* C11 (as claimed): a Some or AtLeast threshold outside (0, n] is rejected at
\* selection or at activation: no activation with such a threshold starts all
\* its pipelines, returns OK and delivers an outcome to the handler.
C11_ThresholdRejected ==
    (ctxPolicy.kind \in {"Some", "AtLeast"} /\ ~ThresholdInRange) =>
        ~(result = "OK" /\ calls >= 1)

\* The policy object a selection call creates for this operation.
C12_Created(call) ==
    CASE call.op = "All" -> AllPolicy
      [] call.op = "Any" -> AnyPolicy(pipelines)
      [] call.op = "Some" -> SomePolicy(pipelines, call.threshold)
      [] OTHER -> AtLeastPolicy(pipelines, call.threshold)

\* C12: RunImpl hands to the Ctx the policy created by the last selection
\* call, and without any selection call the very policy that All() creates, so
\* that the activation starts from the same state as after All() and runs
\* with the All policy throughout.
C12_DefaultPolicy ==
    [][ /\ (runPc = "build" /\ runPc' = "loop") =>
               ctxPolicy' = IF lastCall.op = "none"
                            THEN C12_Created(Call("All", 0))
                            ELSE C12_Created(lastCall)
        /\ (runPc' # "build" /\ lastCall'.op \in {"none", "All"}) =>
               ctxPolicy' = AllPolicy
        /\ (runPc' # "build" /\ lastCall'.op \notin {"none", "All"}) =>
               /\ ctxPolicy'.kind = lastCall'.op
               /\ ctxPolicy'.threshold = lastCall'.threshold
      ]_vars

\* C12 witness: an activation without any selection call, all resolved, in
\* which a failure was delivered although another pipeline succeeded.
C12_Witness ==
    /\ lastCall.op = "none" /\ AllResolved /\ calls = 1 /\ ~delivered.ok
    /\ Successes # {}

\* C13 (as claimed): under Some(k) and AtLeast(k) with 0 < k <= n, a failing
\* Examine returns true only when k successes are out of reach: the successes
\* examined so far plus the pipelines that have not yet decremented the
\* counter are fewer than k.
C13_FailureOnlyWhenUnreachable ==
    (ctxPolicy.kind \in {"Some", "AtLeast"} /\ ThresholdInRange) =>
        \A t \in Tasks :
            (pc[t] = "examined" /\ ~st[t].ok /\ ret[t]) =>
                Cardinality(Successes) + ctxPolicy.cnt < ctxPolicy.threshold

\* C14 (as claimed): with k = n, Some(n) and AtLeast(n) deliver, when all
\* pipelines are resolved, an outcome with the tag All delivers on the same
\* outcomes: a success if and only if every pipeline succeeded.
C14_ThresholdNLikeAll ==
    (/\ ctxPolicy.kind \in {"Some", "AtLeast"}
     /\ ctxPolicy.threshold = pipelines /\ AllResolved) =>
        (delivered.ok <=> (Successes = Tasks))

\* C16 (as claimed): under Any and under Some(k) with 0 < k <= n, when all n
\* pipelines are resolved some Examine call has returned true, and the outcome
\* the handler received does not come from the default success of ~Ctx.
C16_ExplicitDecision ==
    (/\ \/ ctxPolicy.kind = "Any"
        \/ ctxPolicy.kind = "Some" /\ ThresholdInRange
     /\ AllResolved) =>
        /\ \E t \in Tasks : ret[t]
        /\ invoker = "Examine"

\* C17 (as claimed): under Some(k) and AtLeast(k) with 0 < k <= n, at most one
\* Examine call of a run returns true.
C17_AtMostOneDecision ==
    (ctxPolicy.kind \in {"Some", "AtLeast"} /\ ThresholdInRange) =>
        Cardinality({t \in Tasks : Examined(t) /\ ret[t]}) <= 1

\* C15: under Some(1), as long as no earlier Examine call has returned true,
\* every Examine call returns what AnyPolicy::Examine returns for the same
\* status and the same counter value, and the first call that returns true
\* passes its own status to the handler, as it does under Any.
C15_SomeOneLikeAny ==
    [][ (ctxPolicy.kind = "Some" /\ ctxPolicy.threshold = 1) =>
          \A t \in Tasks :
            /\ (/\ pc[t] # "examined" /\ pc'[t] = "examined"
                /\ \A u \in Tasks \ {t} : ~(Examined(u) /\ ret[u])) =>
                   (ret'[t] <=> AnyPolicyExamine(st'[t], nb'[t]))
            /\ (/\ pc[t] = "examined" /\ pc'[t] = "returned" /\ ret[t]
                /\ \A u \in Tasks \ {t} : ~(Examined(u) /\ ret[u])) =>
                   (calls' = 1 /\ delivered' = st[t] /\ invoker' = "Examine")
      ]_vars

\* C15 witness: Some(1) over at least two pipelines: a failure returned without
\* a decision and a success was delivered by its own continuation.
C15_Witness ==
    /\ ctxPolicy.kind = "Some" /\ ctxPolicy.threshold = 1 /\ calls = 1
    /\ \E t, u \in Tasks :
         /\ st[t].ok /\ ret[t] /\ delivered = st[t]
         /\ ~st[u].ok /\ Returned(u) /\ ~ret[u]

\* The holders of the shared Ctx: RunImpl until it returns, and every started
\* pipeline whose continuation has not been destroyed.
C18_Holders ==
    (IF runPc = "loop" THEN 1 ELSE 0)
        + Cardinality({t \in Tasks : pc[t] \notin {"idle", "released"}})

\* C18: the use count of the Ctx is the number of its holders, and the
\* default success of ~Ctx reaches the handler only when none is left: RunImpl
\* has returned and the continuation of every started pipeline has returned
\* and been released.
C18_ImplicitOnlyAtLastRelease ==
    runPc # "build" =>
        /\ refs = C18_Holders
        /\ invoker = "~Ctx" =>
               /\ delivered = XRootDStatus
               /\ refs = 0
               /\ runPc = "done"
               /\ \A t \in Tasks : pc[t] \in {"idle", "released"}

\* C18 witness: at least two pipelines, all succeeded and released, RunImpl
\* returned OK, and the handler received the default success from ~Ctx.
C18_Witness ==
    /\ pipelines >= 2 /\ result = "OK" /\ Successes = Tasks
    /\ \A t \in Tasks : pc[t] = "released"
    /\ invoker = "~Ctx" /\ delivered = XRootDStatus

\* C19: the launch loop starts the pipelines in list order and can start the
\* next one whatever the state of the handler slot; RunImpl returns OK only
\* after starting all of them; a started pipeline's continuation can call
\* Examine and does so once, decrementing the policy's counter also after the
\* handler was invoked; and nothing changes the outcome already delivered.
C19_NoCancellation ==
    [][ /\ (runPc = "loop" /\ i <= pipelines) => ENABLED RunPipeline
        /\ \A t \in Tasks :
               pc[t] = "running" => ENABLED (\E ok \in BOOLEAN : PolicyExamine(t, ok))
        /\ runPc' = "loop" => \A t \in Tasks : (pc'[t] = "idle" <=> t >= i')
        /\ result' = "OK" => \A t \in Tasks : pc'[t] # "idle"
        /\ \A t \in Tasks :
               /\ pc[t] \notin {"idle", "running"} => pc'[t] \notin {"idle", "running"}
               /\ (pc[t] = "running" /\ pc'[t] # "running"
                                     /\ ctxPolicy.kind # "All") =>
                      ctxPolicy'.cnt = ctxPolicy.cnt - 1
        /\ calls = 1 => (calls' = 1 /\ delivered' = delivered)
      ]_vars

\* C19 witness: the handler has already been invoked by an earlier pipeline
\* while the launch loop still has pipelines to start.
C19_Witness ==
    /\ runPc = "loop" /\ i <= pipelines /\ calls = 1
    /\ \E t \in Tasks : t < i /\ Returned(t) /\ delivered = st[t]

\* C20: the status the handler received is either the unchanged status of a
\* pipeline whose own policy call returned true, passed by that pipeline's
\* continuation, or the default success, passed by ~Ctx after the last
\* release; never the status of a pipeline whose policy call returned false.
C20_OutcomeProvenance ==
    calls >= 1 =>
        \/ /\ invoker = "Examine"
           /\ delivered.src \in Tasks
           /\ delivered = st[delivered.src]
           /\ Returned(delivered.src)
           /\ ret[delivered.src]
        \/ /\ invoker = "~Ctx"
           /\ delivered = XRootDStatus
           /\ refs = 0

\* C20 witness: a pipeline's failure was delivered by its own continuation
\* after another pipeline's failure had returned without a decision.
C20_Witness ==
    /\ calls = 1 /\ invoker = "Examine"
    /\ \E t, u \in Tasks :
         /\ delivered = st[t] /\ ret[t] /\ ~st[t].ok
         /\ u # t /\ Returned(u) /\ ~ret[u] /\ ~st[u].ok

\* C21: the timeout RunImpl computes is the smaller of pipelineTimeout and
\* the operation's own timeout (one of the two, not above either, a uint16_t
\* value), it does not change during the activation, and every pipeline
\* whose Run has been called was started with exactly that timeout.
C21_EffectiveTimeout ==
    /\ [](runPc # "build" =>
            /\ timeout \in 0..UInt16Max
            /\ timeout \in {pipelineTimeout, thisTimeout}
            /\ timeout <= pipelineTimeout
            /\ timeout <= thisTimeout
            /\ \A t \in Tasks :
                   /\ pc[t] # "idle" => runTimeout[t] = timeout
                   /\ pc[t] = "idle" => runTimeout[t] = -1)
    /\ [][ /\ runPc # "build" => timeout' = timeout
           /\ thisTimeout' = thisTimeout
           /\ pipelineTimeout' = pipelineTimeout
           /\ \A t \in Tasks : runTimeout[t] # -1 => runTimeout'[t] = runTimeout[t]
         ]_vars

\* C21 witness: the operation's own timeout is the smaller one, the caller
\* passed the largest uint16_t value, and RunImpl returned after starting at
\* least two pipelines, all with the operation's timeout.
C21_Witness ==
    /\ result = "OK" /\ pipelines >= 2
    /\ pipelineTimeout = UInt16Max /\ thisTimeout < pipelineTimeout
    /\ \A t \in Tasks : runTimeout[t] = thisTimeout

\* The pipelines whose continuation has called policy->Examine (its cnt
\* step is done).
C22_ExamineCalls == {t \in Tasks : pc[t] \notin {"idle", "running"}}

\* C22: under Any, Some and AtLeast every Examine call takes exactly one
\* from cnt, with the handler still there or already invoked, so cnt is
\* the number of pipelines less the number of Examine calls made and is
\* never below 0 (the size_t never wraps); cnt and succeeded change in no
\* other step, and succeeded counts the successful Examine calls that have
\* passed their fetch_add, so it exceeds neither the number of successful
\* calls nor the number of pipelines.
C22_CounterBookkeeping ==
    /\ [](ctxPolicy.kind \in {"Any", "Some", "AtLeast"} =>
            /\ ctxPolicy.cnt = pipelines - Cardinality(C22_ExamineCalls)
            /\ ctxPolicy.cnt \in 0..pipelines
            /\ \A t \in Tasks : nb[t] # 0 => nb[t] \in 1..pipelines
            /\ ctxPolicy.succeeded =
                   IF ctxPolicy.kind = "Some"
                   THEN Cardinality({t \in Successes : Examined(t)})
                   ELSE 0
            /\ ctxPolicy.succeeded <= Cardinality(Successes \cap C22_ExamineCalls)
            /\ ctxPolicy.succeeded <= pipelines)
    /\ [][ ctxPolicy.kind \in {"Any", "Some", "AtLeast"} =>
             /\ ctxPolicy'.cnt =
                    ctxPolicy.cnt - Cardinality({t \in Tasks : pc[t] = "running"
                                                     /\ pc'[t] # "running"})
             /\ ctxPolicy'.succeeded =
                    ctxPolicy.succeeded
                      + Cardinality({t \in Tasks : pc[t] = "fetch_add"
                                                     /\ pc'[t] # "fetch_add"})
         ]_vars

\* C22 witness: under Some every pipeline has made its Examine call, the
\* last of them (it read cnt = 1) with the handler already invoked by
\* another pipeline; cnt is 0 and a success has been counted.
C22_Witness ==
    /\ ctxPolicy.kind = "Some" /\ pipelines >= 2
    /\ ctxPolicy.cnt = 0 /\ ctxPolicy.succeeded >= 1
    /\ calls = 1 /\ invoker = "Examine"
    /\ \E t \in Tasks :
         /\ pc[t] = "examined" /\ nb[t] = 1 /\ ~st[t].ok
         /\ delivered.src # t

====
